---- MODULE Spec2Model ----
(***************************************************************************)
(* Model of ethereum-rpc-checker (cmd/ethereum-rpc-checker/main.go):       *)
(* the ticker-driven scheduler goroutine, checkBlockchainRPC, hexToInt and *)
(* the two Prometheus gauge vectors rpcHealthy and blockNumber.            *)
(*                                                                         *)
(* Strings are sequences of one-character strings.  A uint64 is a tuple of *)
(* four 16-bit limbs, most significant first; an int64 and a float64 gauge *)
(* value that holds an integer are records [neg, mag].                     *)
(***************************************************************************)
EXTENDS Integers, Sequences, FiniteSets, TLC

(***************************************************************************)
(* 64-bit unsigned arithmetic on 16-bit limbs                              *)
(***************************************************************************)
LimbBase == 2^16

HexBase == 16

U64Zero == <<0, 0, 0, 0>>

U64(n) == <<0, 0, 0, n>>

\* uint64 comparison a >= b
U64Ge(a, b) ==
    LET RECURSIVE ge(_)
        ge(i) == IF i > 4 THEN TRUE
                 ELSE IF a[i] > b[i] THEN TRUE
                 ELSE IF a[i] < b[i] THEN FALSE
                 ELSE ge(i + 1)
    IN ge(1)

\* n * m + d on uint64, wrapping modulo 2^64 as Go's unsigned arithmetic does
U64MulAdd(n, m, d) ==
    LET t4 == n[4] * m + d
        t3 == n[3] * m + (t4 \div LimbBase)
        t2 == n[2] * m + (t3 \div LimbBase)
        t1 == n[1] * m + (t2 \div LimbBase)
    IN <<t1 % LimbBase, t2 % LimbBase, t3 % LimbBase, t4 % LimbBase>>

\* a non-negative int below 2^31 as a uint64
U64OfInt(n) == <<0, 0, n \div LimbBase, n % LimbBase>>

\* ParseUint's cutoff for base 16: maxUint64/16 + 1 = 2^60
UintCutoff == <<4096, 0, 0, 0>>

\* ParseInt's cutoff for bitSize 64: 1 << 63
IntCutoff == <<32768, 0, 0, 0>>

\* int64(cutoff - 1), the largest int64
MaxInt64Mag == <<32767, 65535, 65535, 65535>>

(***************************************************************************)
(* strconv.ParseInt(s, 16, 64)                                             *)
(***************************************************************************)
DecDigits == <<"0", "1", "2", "3", "4", "5", "6", "7", "8", "9">>

LowerLetters == <<"a", "b", "c", "d", "e", "f", "g", "h", "i", "j", "k", "l", "m",
                  "n", "o", "p", "q", "r", "s", "t", "u", "v", "w", "x", "y", "z">>

UpperLetters == <<"A", "B", "C", "D", "E", "F", "G", "H", "I", "J", "K", "L", "M",
                  "N", "O", "P", "Q", "R", "S", "T", "U", "V", "W", "X", "Y", "Z">>

IndexOf(seq, c) == CHOOSE i \in 1..Len(seq) : seq[i] = c

InSeq(seq, c) == \E i \in 1..Len(seq) : seq[i] = c

\* faulty variant: upper-case letters are not digits
DigitValUpperAsOther(c) ==
    IF InSeq(DecDigits, c) THEN IndexOf(DecDigits, c) - 1
    ELSE IF InSeq(LowerLetters, c) THEN IndexOf(LowerLetters, c) + 9
    ELSE -1

\* the digit value ParseUint gives a byte; -1 when the byte is no digit or letter
DigitVal(c) ==
    IF InSeq(DecDigits, c) THEN IndexOf(DecDigits, c) - 1
    ELSE IF InSeq(LowerLetters, c) THEN IndexOf(LowerLetters, c) + 9
    ELSE IF InSeq(UpperLetters, c) THEN IndexOf(UpperLetters, c) + 9
    ELSE -1

\* ParseUint's result while it scans: [val, err], err one of "nil", "ErrSyntax", "ErrRange"
UintMax == <<65535, 65535, 65535, 65535>>

\* one round of ParseUint's loop over the bytes of s; an error ends the scan
ParseUintStep(acc, c) ==
    LET d  == DigitVal(c)
        n0 == U64MulAdd(acc.val, HexBase, 0)
        n1 == U64MulAdd(acc.val, HexBase, d)
    IN IF acc.err # "nil" THEN acc
       ELSE IF d < 0 \/ d >= HexBase THEN [val |-> U64Zero, err |-> "ErrSyntax"]
       ELSE IF U64Ge(acc.val, UintCutoff) THEN [val |-> UintMax, err |-> "ErrRange"]
       ELSE IF ~U64Ge(n1, n0) THEN [val |-> UintMax, err |-> "ErrRange"]
       ELSE [val |-> n1, err |-> "nil"]

\* strconv.ParseUint(s, 16, 64); the accumulator is carried in a one-element
\* set so that every round works on a value
ParseUint(s) ==
    LET RECURSIVE scan(_, _)
        scan(i, accs) ==
            IF i > Len(s) THEN accs
            ELSE scan(i + 1, {ParseUintStep(a, s[i]) : a \in accs})
    IN IF Len(s) = 0 THEN [val |-> U64Zero, err |-> "ErrSyntax"]
       ELSE CHOOSE r \in scan(1, {[val |-> U64Zero, err |-> "nil"]}) : TRUE

Tail1(s) == SubSeq(s, 2, Len(s))

\* an int64 from sign and magnitude; minus zero is zero
MkInt(neg, mag) == [neg |-> neg /\ mag # U64Zero, mag |-> mag]

\* ParseInt's range checks on the magnitude u that ParseUint returned
SignedResult(neg, u) ==
    IF u.err = "ErrSyntax" THEN [val |-> MkInt(FALSE, U64Zero), err |-> "ErrSyntax"]
    ELSE IF ~neg /\ U64Ge(u.val, IntCutoff)
    THEN [val |-> MkInt(FALSE, MaxInt64Mag), err |-> "ErrRange"]
    ELSE IF neg /\ U64Ge(u.val, IntCutoff) /\ u.val # IntCutoff
    THEN [val |-> MkInt(TRUE, IntCutoff), err |-> "ErrRange"]
    ELSE [val |-> MkInt(neg, u.val), err |-> "nil"]

\* faulty variant: ParseUint alone, no sign accepted
ParseIntUnsignedOnly(s) ==
    CHOOSE r \in {SignedResult(FALSE, u) : u \in {ParseUint(s)}} : TRUE

\* strconv.ParseInt(s, 16, 64): [val, err]; a leading sign is taken off and
\* the rest goes to ParseUint
ParseInt(s) ==
    IF Len(s) = 0 THEN [val |-> MkInt(FALSE, U64Zero), err |-> "ErrSyntax"]
    ELSE CHOOSE r \in
            {SignedResult(s[1] = "-", u) :
                u \in {ParseUint(IF s[1] = "+" \/ s[1] = "-" THEN Tail1(s) ELSE s)}} : TRUE

\* strings.TrimPrefix(s, "0x")
TrimPrefix0x(s) ==
    IF Len(s) >= 2 /\ s[1] = "0" /\ s[2] = "x" THEN SubSeq(s, 3, Len(s)) ELSE s

\* hexToInt(hexStr): [val, err]
hexToInt(hexStr) == ParseInt(TrimPrefix0x(hexStr))

(***************************************************************************)
(* float64(blockNum): the int64 rounded to the nearest double, ties to     *)
(* even (53 significant bits)                                              *)
(***************************************************************************)
MantissaBits == 53

RECURSIVE BitLen(_)
BitLen(n) == IF n = 0 THEN 0 ELSE 1 + BitLen(n \div 2)

\* number of significant bits of a uint64
U64BitLen(m) ==
    IF m[1] # 0 THEN 48 + BitLen(m[1])
    ELSE IF m[2] # 0 THEN 32 + BitLen(m[2])
    ELSE IF m[3] # 0 THEN 16 + BitLen(m[3])
    ELSE BitLen(m[4])

\* m + k * 2^0 on the lowest limb, carrying upwards (k < 2^16)
U64AddLow(m, k) ==
    LET t4 == m[4] + k
        t3 == m[3] + (t4 \div LimbBase)
        t2 == m[2] + (t3 \div LimbBase)
        t1 == m[1] + (t2 \div LimbBase)
    IN <<t1 % LimbBase, t2 % LimbBase, t3 % LimbBase, t4 % LimbBase>>

\* faulty variant: the conversion truncates instead of rounding to nearest
RoundMagTruncate(m) ==
    LET len == U64BitLen(m) IN
    IF len <= MantissaBits THEN m
    ELSE LET unit == 2^(len - MantissaBits)
         IN <<m[1], m[2], m[3], m[4] - (m[4] % unit)>>

\* a magnitude of at most 2^63 rounded to 53 significant bits
RoundMag(m) ==
    LET len == U64BitLen(m) IN
    IF len <= MantissaBits THEN m
    ELSE LET shift == len - MantissaBits
             unit  == 2^shift
             low   == m[4] % unit
             kept  == <<m[1], m[2], m[3], m[4] - low>>
             odd   == (m[4] \div unit) % 2 = 1
             up    == low * 2 > unit \/ (low * 2 = unit /\ odd)
         IN IF up THEN U64AddLow(kept, unit) ELSE kept

\* float64(v) for an int64 v
ToFloat64(v) == [neg |-> v.neg, mag |-> RoundMag(v.mag)]

\* the float64 literals 0 and 1 that Set(0) and Set(1) store
F64(n) == [neg |-> FALSE, mag |-> U64(n)]

(***************************************************************************)
(* Hexadecimal text of a value: lowercase, no leading zeros                *)
(* (strconv.FormatInt(v, 16) on the magnitude)                             *)
(***************************************************************************)
HexChar(d) == IF d < 10 THEN DecDigits[d + 1] ELSE LowerLetters[d - 9]

LimbHex(l) == <<HexChar(l \div 4096), HexChar((l \div 256) % 16),
                HexChar((l \div 16) % 16), HexChar(l % 16)>>

RECURSIVE StripZeros(_)
StripZeros(s) == IF Len(s) > 1 /\ s[1] = "0" THEN StripZeros(Tail1(s)) ELSE s

FormatHexMag(m) ==
    StripZeros(LimbHex(m[1]) \o LimbHex(m[2]) \o LimbHex(m[3]) \o LimbHex(m[4]))

\* lower-case a hexadecimal digit string
ToLowerStr(s) ==
    [i \in 1..Len(s) |->
        IF InSeq(UpperLetters, s[i]) THEN LowerLetters[IndexOf(UpperLetters, s[i])] ELSE s[i]]

(***************************************************************************)
(* Configuration and environment                                           *)
(***************************************************************************)
Endpoint(name, url) == [Name |-> name, URL |-> url]

Names == {"A", "B"}

URLs == {"u1", "u2"}

\* the endpoint lists of the configurations explored (Config.Endpoints)
EndpointLists ==
    { <<>>,
      <<Endpoint("A", "u1")>>,
      <<Endpoint("A", "u1"), Endpoint("B", "u2")>>,
      <<Endpoint("B", "u2"), Endpoint("A", "u1")>>,
      <<Endpoint("A", "u1"), Endpoint("A", "u2")>> }

Config(endpoints, interval, method) ==
    [Endpoints |-> endpoints, Interval |-> interval, Method |-> method]

NoConfig == Config(<<>>, 0, "")

\* config.yaml as found on disk: whether ReadFile and yaml.Unmarshal succeed,
\* and the Config that Unmarshal yields
ConfigFile(readable, parses, cfg) == [readable |-> readable, parses |-> parses, cfg |-> cfg]

\* besides the ordinary files: interval 0; interval -1; 153722868 minutes,
\* the least interval whose nanoseconds exceed 2^63 - 1; 307445735 minutes,
\* the least whose nanoseconds exceed 2^64; an empty method; a file that
\* cannot be read; a file that cannot be parsed
ConfigFiles ==
    {ConfigFile(TRUE, TRUE, Config(l, 1, "eth_blockNumber")) : l \in EndpointLists}
    \cup {ConfigFile(TRUE, TRUE, Config(<<Endpoint("A", "u1")>>, i, "eth_blockNumber")) :
             i \in {0, -1, 153722868, 307445735}}
    \cup {ConfigFile(TRUE, TRUE, Config(<<Endpoint("A", "u1")>>, 1, "")),
          ConfigFile(FALSE, FALSE, NoConfig),
          ConfigFile(TRUE, FALSE, NoConfig)}

\* raw results a remote endpoint returns for the configured method
Hex1b4 == <<"0", "x", "1", "b", "4">>

Hex0 == <<"0", "x", "0">>

NotAHex == <<"n", "o", "t", "a", "h", "e", "x">>

HexMinus1 == <<"0", "x", "-", "1">>

\* 2^53 + 3, an int64 that is no float64
HexBig == <<"0", "x", "2", "0", "0", "0", "0", "0", "0", "0", "0", "0", "0", "0", "0", "3">>

RawResults == {Hex1b4, Hex0, NotAHex, HexMinus1, HexBig}

\* what the environment does to one probe of a URL: the dial fails, the call
\* returns an error, the call does not return before the deadline, or the
\* call returns a raw result
Behaviours ==
    {[kind |-> "dialerr", raw |-> <<>>], [kind |-> "callerr", raw |-> <<>>],
     [kind |-> "timeout", raw |-> <<>>]} \cup {[kind |-> "result", raw |-> r] : r \in RawResults}

(***************************************************************************)
(* State                                                                   *)
(***************************************************************************)
VARIABLES
    configFile,   \* the file config.yaml
    mainpc,       \* main goroutine: "load", "ticker", "spawn", "listen", "serving", "exited"
    config,       \* the Config loaded by loadConfigFile
    tickerC,      \* ticks buffered in ticker.C (capacity 1)
    schedpc,      \* scheduler goroutine: "none", "recv", "loop", "probe"
    idx,          \* position of the range loop over config.Endpoints
    remote,       \* the environment's behaviour towards each URL in this cycle
    cycleStart,   \* blockNumber as it was when the running cycle began
    ppc,          \* checkBlockchainRPC: "none", "dial", "call", "decode", "sethealthy",
                  \* "setblock"
    ctx,          \* the probe's context: "none", "live", "expired", "cancelled"
    client,       \* the client rpcDial returned: "nil", "open", "closed"
    result,       \* var result string
    blockNum,     \* blockNum returned by hexToInt
    pre,          \* blockNumber of the probed name when checkBlockchainRPC was entered
    ret,          \* how the last checkBlockchainRPC call returned
    rpcHealthy,   \* gauge vector blockchain_rpc_healthy, by label
    blockNumber,  \* gauge vector blockchain_block_number, by label
    decoded,      \* by label, float64 of the value decoded by the last probe that Set(1)
    hexStr,       \* argument of a direct call of hexToInt
    hexRet,       \* what that call returned
    repertoire,   \* the behaviours the remote endpoints show in this run
    count,        \* checkBlockchainRPC calls of this cycle by list position; rpcDial and
                  \* CallContext calls of the last probe
    res           \* in this cycle: clients opened and closed, contexts derived and
                  \* cancelled, probes returned and how each returned

vars == <<configFile, mainpc, config, tickerC, schedpc, idx, remote, cycleStart, ppc, ctx, client,
          result, blockNum, pre, ret, rpcHealthy, blockNumber, decoded,
          hexStr, hexRet, repertoire, count, res>>

mainVars == <<configFile, mainpc, config>>

schedVars == <<schedpc, idx, remote, cycleStart>>

frameVars == <<ppc, ctx, client, result, blockNum, pre>>

gaugeVars == <<rpcHealthy, blockNumber, decoded>>

tallyVars == <<count, res>>

\* variables that no step of main or of the scheduler writes
pureVars == <<hexStr, hexRet, repertoire>>

\* a gauge child that was never created by WithLabelValues
Unset == [set |-> FALSE, val |-> F64(0)]

Value(v) == [set |-> TRUE, val |-> v]

Int0 == MkInt(FALSE, U64Zero)

NoRet == [name |-> "", outcome |-> "none", raw |-> <<>>, pre |-> Unset,
          client |-> "nil", ctx |-> "none"]

NoCount == [probes |-> <<>>, dials |-> 0, calls |-> 0]

NoRes == [opened |-> 0, closed |-> 0, ctxs |-> 0, cancels |-> 0, returns |-> 0, outcomes |-> <<>>]

NoHexRet == [done |-> FALSE, val |-> Int0, err |-> "nil"]

TimeoutBehaviour == [kind |-> "timeout", raw |-> <<>>]

QuietRemote == [u \in URLs |-> TimeoutBehaviour]

\* faulty variant: every child shares one label
SetGaugeOneLabel(vec, label, v) == [n \in Names |-> Value(v)]

\* vec.WithLabelValues(label): the child of the label, created with value 0
\* when the vector has none
WithLabelValues(vec, label) ==
    IF vec[label].set THEN vec ELSE [vec EXCEPT ![label] = Value(F64(0))]

\* vec.WithLabelValues(label).Set(v), where no state between the two calls
\* differs from the one before or the one after: the child exists, or v is 0
SetGauge(vec, label, v) == [WithLabelValues(vec, label) EXCEPT ![label] = Value(v)]

Running == mainpc # "exited"

endpoint == config.Endpoints[idx]

\* the state of the program variables when the process starts
ProcessStart ==
    /\ mainpc = "load"
    /\ config = NoConfig
    /\ tickerC = 0
    /\ schedpc = "none"
    /\ idx = 0
    /\ remote = QuietRemote
    /\ cycleStart = [n \in Names |-> Unset]
    /\ ppc = "none"
    /\ ctx = "none"
    /\ client = "nil"
    /\ result = <<>>
    /\ blockNum = Int0
    /\ pre = Unset
    /\ ret = NoRet
    /\ rpcHealthy = [n \in Names |-> Unset]
    /\ blockNumber = [n \in Names |-> Unset]
    /\ decoded = [n \in Names |-> Unset]
    /\ hexRet = NoHexRet
    /\ count = NoCount
    /\ res = NoRes

Init ==
    /\ configFile \in ConfigFiles
    /\ repertoire = Behaviours
    /\ hexStr = <<>>
    /\ ProcessStart

(***************************************************************************)
(* main                                                                    *)
(***************************************************************************)
\* config := loadConfigFile("config.yaml"); log.Fatalf when the file cannot
\* be read or parsed
LoadConfig ==
    /\ mainpc = "load"
    /\ IF configFile.readable /\ configFile.parses
       THEN /\ config' = configFile.cfg
            /\ mainpc' = "ticker"
       ELSE /\ mainpc' = "exited"
            /\ UNCHANGED config
    /\ UNCHANGED <<pureVars, tallyVars, configFile, tickerC, schedVars, frameVars, ret, gaugeVars>>

\* time.Minute = 60 * Second, Second = 1000 * Millisecond,
\* Millisecond = 1000 * Microsecond, Microsecond = 1000 * Nanosecond
MinuteFactors == <<60, 1000, 1000, 1000>>

\* time.Duration(interval) * time.Minute > 0, the int64 product wrapping
\* modulo 2^64: with p the wrapped product of the magnitude, the product is
\* p for interval >= 0 and 2^64 - p otherwise
DurationPositive(interval) ==
    LET mag == IF interval < 0 THEN -interval ELSE interval
        RECURSIVE mul(_, _)
        mul(n, k) == IF k > Len(MinuteFactors) THEN n
                     ELSE CHOOSE r \in {mul(m, k + 1) : m \in {U64MulAdd(n, MinuteFactors[k], 0)}} :
                              TRUE
        p == mul(U64OfInt(mag), 1)
    IN IF interval >= 0 THEN p # U64Zero /\ ~U64Ge(p, IntCutoff)
       ELSE U64Ge(p, IntCutoff) /\ p # IntCutoff

\* ticker := time.NewTicker(time.Duration(config.Interval) * time.Minute);
\* NewTicker panics on a non-positive duration
NewTicker ==
    /\ mainpc = "ticker"
    /\ mainpc' = IF DurationPositive(config.Interval) THEN "spawn" ELSE "exited"
    /\ UNCHANGED <<pureVars, tallyVars, configFile, config, tickerC, schedVars, frameVars, ret, gaugeVars>>

\* faulty variant: the goroutine runs a cycle at launch, before it waits for a tick
SpawnSchedulerProbesAtOnce ==
    /\ mainpc = "spawn"
    /\ mainpc' = "listen"
    /\ schedpc' = "loop"
    /\ idx' = 1
    /\ count' = [NoCount EXCEPT !.probes = [i \in 1..Len(config.Endpoints) |-> 0]]
    /\ UNCHANGED <<pureVars, res, configFile, config, tickerC, remote, cycleStart, frameVars, ret,
                   gaugeVars>>

\* go func() { for range ticker.C { ... } }()
SpawnScheduler ==
    /\ mainpc = "spawn"
    /\ mainpc' = "listen"
    /\ schedpc' = "recv"
    /\ UNCHANGED <<pureVars, tallyVars, configFile, config, tickerC, idx, remote, cycleStart, frameVars, ret,
                   gaugeVars>>

\* http.Handle("/metrics", ...); http.ListenAndServe(...) starts serving
ListenAndServe ==
    /\ mainpc = "listen"
    /\ mainpc' = "serving"
    /\ UNCHANGED <<pureVars, tallyVars, configFile, config, tickerC, schedVars, frameVars, ret, gaugeVars>>

\* ListenAndServe returns its error and log.Fatal ends the process
ServeFails ==
    /\ mainpc = "serving"
    /\ mainpc' = "exited"
    /\ UNCHANGED <<pureVars, tallyVars, configFile, config, tickerC, schedVars, frameVars, ret, gaugeVars>>

TickerActive == mainpc \in {"spawn", "listen", "serving"}

\* the runtime timer sends on ticker.C; the send is dropped when the buffer is full
Tick ==
    /\ TickerActive
    /\ tickerC = 0
    /\ tickerC' = 1
    /\ UNCHANGED <<pureVars, tallyVars, mainVars, schedVars, frameVars, ret, gaugeVars>>

(***************************************************************************)
(* The scheduler goroutine                                                 *)
(***************************************************************************)
ConfiguredURLs == {config.Endpoints[i].URL : i \in 1..Len(config.Endpoints)}

\* faulty variant: every tick begins a cycle at once, whatever the loop is doing
ConsumeTickAnytime ==
    /\ Running
    /\ schedpc # "none"
    /\ tickerC = 1
    /\ tickerC' = 0
    /\ schedpc' = "loop"
    /\ idx' = 1
    /\ remote' \in [URLs -> repertoire]
    /\ cycleStart' = blockNumber
    /\ ret' = NoRet
    /\ ppc' = "none"
    /\ ctx' = "none"
    /\ client' = "nil"
    /\ result' = <<>>
    /\ blockNum' = Int0
    /\ pre' = Unset
    /\ count' = [NoCount EXCEPT !.probes = [i \in 1..Len(config.Endpoints) |-> 0]]
    /\ res' = NoRes
    /\ UNCHANGED <<pureVars, mainVars, gaugeVars>>

\* for range ticker.C: receive one tick and begin the range over the endpoints
ConsumeTick ==
    /\ Running
    /\ schedpc = "recv"
    /\ tickerC = 1
    /\ tickerC' = 0
    /\ schedpc' = "loop"
    /\ idx' = 1
    /\ \E r \in [URLs -> repertoire \cup {TimeoutBehaviour}] :
          /\ \A u \in URLs \ ConfiguredURLs : r[u] = QuietRemote[u]
          /\ remote' = r
    /\ cycleStart' = blockNumber
    /\ ret' = NoRet
    /\ count' = [NoCount EXCEPT !.probes = [i \in 1..Len(config.Endpoints) |-> 0]]
    /\ res' = NoRes
    /\ UNCHANGED <<pureVars, mainVars, frameVars, gaugeVars>>

\* the range loop has a next endpoint: enter checkBlockchainRPC and derive ctx
StartProbe ==
    /\ Running
    /\ schedpc = "loop"
    /\ idx <= Len(config.Endpoints)
    /\ schedpc' = "probe"
    /\ ppc' = "dial"
    /\ ctx' = "live"
    /\ pre' = blockNumber[endpoint.Name]
    /\ ret' = NoRet
    /\ count' = [probes |-> [count.probes EXCEPT ![idx] = @ + 1], dials |-> 0, calls |-> 0]
    /\ res' = [res EXCEPT !.ctxs = @ + 1]
    /\ UNCHANGED <<pureVars, mainVars, tickerC, idx, remote, cycleStart, client, result, blockNum,
                   gaugeVars>>

\* the range loop is exhausted: back to the receive on ticker.C
CycleDone ==
    /\ Running
    /\ schedpc = "loop"
    /\ idx > Len(config.Endpoints)
    /\ schedpc' = "recv"
    /\ idx' = 0
    /\ remote' = QuietRemote
    /\ cycleStart' = [n \in Names |-> Unset]
    /\ ret' = NoRet
    /\ count' = NoCount
    /\ res' = NoRes
    /\ UNCHANGED <<pureVars, mainVars, tickerC, frameVars, gaugeVars>>

(***************************************************************************)
(* checkBlockchainRPC                                                      *)
(***************************************************************************)
\* faulty variant: client.Close() is not deferred but called at the end of
\* the function, so that the early returns skip it
ReturnLeaksOnFailure(outcome) ==
    /\ ret' = [name |-> endpoint.Name, outcome |-> outcome, raw |-> result, pre |-> pre,
               client |-> IF client = "open" /\ outcome = "Healthy" THEN "closed" ELSE client,
               ctx |-> "cancelled"]
    /\ ppc' = "none"
    /\ ctx' = "none"
    /\ client' = "nil"
    /\ result' = <<>>
    /\ blockNum' = Int0
    /\ pre' = Unset
    /\ schedpc' = "loop"
    /\ idx' = idx + 1
    /\ res' = [res EXCEPT !.closed = IF client = "open" /\ outcome = "Healthy" THEN @ + 1 ELSE @,
                          !.cancels = @ + 1,
                          !.returns = @ + 1,
                          !.outcomes = Append(@, [name |-> endpoint.Name,
                                                  outcome |-> outcome, raw |-> result])]
    /\ UNCHANGED <<pureVars, mainVars, tickerC, remote, cycleStart, decoded>>

\* return: the deferred client.Close() and cancel() run, the range loop advances
Return(outcome) ==
    /\ ret' = [name |-> endpoint.Name, outcome |-> outcome, raw |-> result, pre |-> pre,
               client |-> IF client = "open" THEN "closed" ELSE client,
               ctx |-> "cancelled"]
    /\ ppc' = "none"
    /\ ctx' = "none"
    /\ client' = "nil"
    /\ result' = <<>>
    /\ blockNum' = Int0
    /\ pre' = Unset
    /\ schedpc' = "loop"
    /\ idx' = idx + 1
    /\ res' = [res EXCEPT !.closed = IF client = "open" THEN @ + 1 ELSE @,
                          !.cancels = @ + 1,
                          !.returns = @ + 1,
                          !.outcomes = Append(@, [name |-> endpoint.Name,
                                                  outcome |-> outcome, raw |-> result])]
    /\ UNCHANGED <<pureVars, mainVars, tickerC, remote, cycleStart, decoded>>

\* faulty variant: after a failure the range loop calls checkBlockchainRPC
\* again for the same endpoint
UnhealthyRetries(reason) ==
    /\ rpcHealthy' = SetGauge(rpcHealthy, endpoint.Name, F64(0))
    /\ ret' = [name |-> endpoint.Name, outcome |-> reason, raw |-> result, pre |-> pre,
               client |-> IF client = "open" THEN "closed" ELSE client,
               ctx |-> "cancelled"]
    /\ ppc' = "none"
    /\ ctx' = "none"
    /\ client' = "nil"
    /\ result' = <<>>
    /\ blockNum' = Int0
    /\ pre' = Unset
    /\ schedpc' = "loop"
    /\ res' = [res EXCEPT !.closed = IF client = "open" THEN @ + 1 ELSE @,
                          !.cancels = @ + 1,
                          !.returns = @ + 1,
                          !.outcomes = Append(@, [name |-> endpoint.Name,
                                                  outcome |-> reason, raw |-> result])]
    /\ UNCHANGED <<pureVars, mainVars, tickerC, idx, remote, cycleStart, blockNumber, decoded>>

\* faulty variant: a failure is logged and returned without a gauge write
UnhealthyNoSet(reason) ==
    /\ UNCHANGED <<rpcHealthy, blockNumber>>
    /\ Return(reason)

\* faulty variant: a failure also resets the block number gauge
UnhealthyClearsBlock(reason) ==
    /\ rpcHealthy' = SetGauge(rpcHealthy, endpoint.Name, F64(0))
    /\ blockNumber' = SetGauge(blockNumber, endpoint.Name, F64(0))
    /\ Return(reason)

\* faulty variant: a failure is logged with log.Fatalf and ends the process
UnhealthyFatal(reason) ==
    /\ rpcHealthy' = SetGauge(rpcHealthy, endpoint.Name, F64(0))
    /\ mainpc' = "exited"
    /\ UNCHANGED <<pureVars, configFile, config, tickerC, schedVars, frameVars, ret,
                   blockNumber, decoded, res>>

\* rpcHealthy.WithLabelValues(endpoint.Name).Set(0); return
Unhealthy(reason) ==
    /\ rpcHealthy' = SetGauge(rpcHealthy, endpoint.Name, F64(0))
    /\ UNCHANGED blockNumber
    /\ Return(reason)

InProbe(at) == Running /\ schedpc = "probe" /\ ppc = at

\* rpcDial returns an error
DialFail ==
    /\ InProbe("dial")
    /\ remote[endpoint.URL].kind = "dialerr"
    /\ count' = [count EXCEPT !.dials = @ + 1]
    /\ Unhealthy("ConnectError")

\* rpcDial returns a client; defer client.Close()
DialOK ==
    /\ InProbe("dial")
    /\ remote[endpoint.URL].kind # "dialerr"
    /\ client' = "open"
    /\ ppc' = "call"
    /\ count' = [count EXCEPT !.dials = @ + 1]
    /\ res' = [res EXCEPT !.opened = @ + 1]
    /\ UNCHANGED <<pureVars, mainVars, tickerC, schedVars, ctx, result, blockNum, pre, ret, gaugeVars>>

\* faulty variant: the call runs under context.Background(), which never expires
DeadlineNever ==
    /\ FALSE
    /\ UNCHANGED vars

\* the 30 s of context.WithTimeout (line 269) pass before cancel() has run,
\* wherever checkBlockchainRPC is
DeadlineElapses ==
    /\ Running
    /\ schedpc = "probe"
    /\ ctx = "live"
    /\ ctx' = "expired"
    /\ UNCHANGED <<pureVars, tallyVars, mainVars, tickerC, schedVars, ppc, client, result, blockNum, pre, ret,
                   gaugeVars>>

\* client.CallContext stores the raw result and returns nil: the answer
\* arrived before the deadline
CallOK ==
    /\ InProbe("call")
    /\ remote[endpoint.URL].kind = "result"
    /\ ctx = "live"
    /\ result' = remote[endpoint.URL].raw
    /\ ppc' = "decode"
    /\ count' = [count EXCEPT !.calls = @ + 1]
    /\ UNCHANGED res
    /\ UNCHANGED <<pureVars, mainVars, tickerC, schedVars, ctx, client, blockNum, pre, ret, gaugeVars>>

\* client.CallContext returns an error: the remote's, or the context's deadline
CallFail ==
    /\ InProbe("call")
    /\ remote[endpoint.URL].kind = "callerr" \/ ctx = "expired"
    /\ count' = [count EXCEPT !.calls = @ + 1]
    /\ Unhealthy("CallError")

\* hexToInt(result) returns an error
DecodeFail ==
    /\ InProbe("decode")
    /\ \E r \in {hexToInt(result)} : r.err # "nil"
    /\ UNCHANGED count
    /\ Unhealthy("DecodeError")

\* blockNum, err := hexToInt(result) with err == nil
DecodeOK ==
    /\ InProbe("decode")
    /\ \E r \in {hexToInt(result)} :
          /\ r.err = "nil"
          /\ blockNum' = r.val
    /\ ppc' = "sethealthy"
    /\ UNCHANGED <<pureVars, tallyVars, mainVars, tickerC, schedVars, ctx, client, result, pre, ret,
                   gaugeVars>>

\* rpcHealthy.WithLabelValues(endpoint.Name) creates the child, with value 0,
\* for a label that has none
HealthyChild ==
    /\ InProbe("sethealthy")
    /\ ~rpcHealthy[endpoint.Name].set
    /\ rpcHealthy' = WithLabelValues(rpcHealthy, endpoint.Name)
    /\ UNCHANGED <<pureVars, tallyVars, mainVars, tickerC, schedVars, frameVars, ret, blockNumber,
                   decoded>>

\* the child exists: .Set(1)
SetHealthy ==
    /\ InProbe("sethealthy")
    /\ rpcHealthy[endpoint.Name].set
    /\ rpcHealthy' = SetGauge(rpcHealthy, endpoint.Name, F64(1))
    /\ decoded' = [decoded EXCEPT ![endpoint.Name] = Value(ToFloat64(blockNum))]
    /\ ppc' = "setblock"
    /\ UNCHANGED <<pureVars, tallyVars, mainVars, tickerC, schedVars, ctx, client, result, blockNum,
                   pre, ret, blockNumber>>

\* blockNumber.WithLabelValues(endpoint.Name) creates the child, with value
\* 0, for a label that has none
BlockChild ==
    /\ InProbe("setblock")
    /\ ~blockNumber[endpoint.Name].set
    /\ blockNumber' = WithLabelValues(blockNumber, endpoint.Name)
    /\ UNCHANGED <<pureVars, tallyVars, mainVars, tickerC, schedVars, frameVars, ret, rpcHealthy,
                   decoded>>

\* the child exists: .Set(float64(blockNum)); return
SetBlock ==
    /\ InProbe("setblock")
    /\ blockNumber[endpoint.Name].set
    /\ blockNumber' = SetGauge(blockNumber, endpoint.Name, ToFloat64(blockNum))
    /\ UNCHANGED <<rpcHealthy, count>>
    /\ Return("Healthy")

checkBlockchainRPC ==
    \/ DialFail \/ DialOK \/ CallOK \/ CallFail \/ DecodeFail
    \/ DecodeOK \/ HealthyChild \/ SetHealthy \/ BlockChild \/ SetBlock

Scheduler == ConsumeTick \/ StartProbe \/ CycleDone \/ checkBlockchainRPC

Main == LoadConfig \/ NewTicker \/ SpawnScheduler \/ ListenAndServe \/ ServeFails

Next ==
    \/ LoadConfig \/ NewTicker \/ SpawnScheduler \/ ListenAndServe \/ ServeFails
    \/ Tick \/ DeadlineElapses
    \/ ConsumeTick \/ StartProbe \/ CycleDone
    \/ DialFail \/ DialOK \/ CallOK \/ CallFail \/ DecodeFail
    \/ DecodeOK \/ HealthyChild \/ SetHealthy \/ BlockChild \/ SetBlock

Spec == Init /\ [][Next]_vars

\* the goroutines are scheduled, the timers fire
Fairness == WF_vars(Scheduler) /\ WF_vars(DeadlineElapses) /\ WF_vars(Tick)

\* a run with one or two endpoints whose remotes fail in each way, answer
\* "0x1b4" or answer "notahex"
InitFair ==
    /\ configFile \in
          {ConfigFile(TRUE, TRUE, Config(l, 1, "eth_blockNumber")) :
              l \in {<<Endpoint("A", "u1")>>, <<Endpoint("A", "u1"), Endpoint("B", "u2")>>}}
    /\ repertoire = {b \in Behaviours : b.kind # "result" \/ b.raw \in {Hex1b4, NotAHex}}
    /\ hexStr = <<>>
    /\ ProcessStart

FairSpec == InitFair /\ [][Next]_vars /\ Fairness

(***************************************************************************)
(* hexToInt called on its own                                              *)
(***************************************************************************)
MaxBodyLen == 2

Alphabet == {"0", "1", "7", "8", "a", "F", "f", "g", "-", "+", "x", "_"}

SeqsUpTo(S, n) == UNION {[1..k -> S] : k \in 0..n}

Fill(c, n) == [i \in 1..n |-> c]

\* digit strings of 14 to 17 digits around the 64-bit limits
LongBodies ==
    {sg \o h \o Fill(c, n) \o t :
        sg \in {<<>>, <<"-">>}, h \in {<<>>, <<"7">>, <<"8">>, <<"f">>},
        c \in {"0", "f", "F"}, n \in 14..15, t \in {<<>>, <<"0">>, <<"1">>}}

HexInputs ==
    {p \o b : p \in {<<>>, <<"0", "x">>, <<"0", "X">>},
              b \in SeqsUpTo(Alphabet, MaxBodyLen) \cup LongBodies}
    \cup RawResults

InitHex ==
    /\ configFile = ConfigFile(FALSE, FALSE, NoConfig)
    /\ repertoire = Behaviours
    /\ hexStr \in HexInputs
    /\ ProcessStart

\* r, err := hexToInt(hexStr)
HexToIntCall ==
    /\ ~hexRet.done
    /\ \E r \in {hexToInt(hexStr)} : hexRet' = [done |-> TRUE, val |-> r.val, err |-> r.err]
    /\ UNCHANGED <<hexStr, repertoire, tallyVars, mainVars, tickerC, schedVars, frameVars, ret, gaugeVars>>

NextHex == HexToIntCall

SpecHex == InitHex /\ [][NextHex]_vars

(***************************************************************************)
(* Properties                                                              *)
(***************************************************************************)
H0 == Value(F64(0))

H1 == Value(F64(1))

Failed(o) == o \in {"ConnectError", "CallError", "DecodeError"}

CycleRunning == schedpc \in {"loop", "probe"}

CycleEnd == schedpc = "loop" /\ idx > Len(config.Endpoints)

DistinctNames(l) == \A i, j \in 1..Len(l) : l[i].Name = l[j].Name => i = j

\* 2^53 + 4, the float64 nearest to 2^53 + 3
Big53 == Value([neg |-> FALSE, mag |-> <<32, 0, 0, 4>>])

\* C1: when checkBlockchainRPC has returned after a failure at any stage (dial,
\* call or deadline, decode), rpc_healthy of the probed name is 0 and its
\* block_number is what it was when the call was entered, unset included.
C1_FailedProbe ==
    Failed(ret.outcome) =>
        /\ rpcHealthy[ret.name] = H0
        /\ blockNumber[ret.name] = ret.pre

\* a decode failure on "notahex" has returned for a name whose block number was 436
C1_Witness ==
    /\ ret.outcome = "DecodeError"
    /\ ret.raw = NotAHex
    /\ ret.pre = Value(F64(436))
    /\ blockNumber[ret.name] = Value(F64(436))

\* C2 as stated: after a probe whose dial and call succeeded and whose raw
\* result decodes to v, rpc_healthy is 1 and block_number equals v itself.
C2_ExactValue ==
    (ret.outcome \in {"DecodeError", "Healthy"} /\ hexToInt(ret.raw).err = "nil") =>
        /\ rpcHealthy[ret.name] = H1
        /\ blockNumber[ret.name] = Value(hexToInt(ret.raw).val)

\* C2 amended: after such a probe rpc_healthy is 1 and block_number is
\* float64(v), the double nearest to v (ties to even); that is v itself
\* whenever v has at most 53 significant bits, so "0x1b4" leaves 436, while
\* 2^53 + 3 leaves 2^53 + 4; whatever the gauges held before.
C2_Float64Value ==
    (ret.outcome \in {"DecodeError", "Healthy"} /\ hexToInt(ret.raw).err = "nil") =>
        LET v == hexToInt(ret.raw).val IN
        /\ ret.outcome = "Healthy"
        /\ rpcHealthy[ret.name] = H1
        /\ blockNumber[ret.name] = Value(ToFloat64(v))
        /\ U64BitLen(v.mag) <= MantissaBits => blockNumber[ret.name] = Value(v)
        /\ ret.raw = Hex1b4 => blockNumber[ret.name] = Value(F64(436))
        /\ ret.raw = HexBig => blockNumber[ret.name] = Big53

\* "0x1b4" was decoded for a name whose block number gauge held 2^53 + 4
C2_Witness ==
    /\ ret.outcome = "Healthy"
    /\ ret.raw = Hex1b4
    /\ ret.pre = Big53
    /\ rpcHealthy[ret.name] = H1
    /\ blockNumber[ret.name] = Value(F64(436))

\* C3 as stated: in every state a reader of the gauges can observe,
\* rpc_healthy[name] = 1 implies that block_number[name] is set and is the
\* value decoded by the probe that wrote that 1.
C3_NoTornPair ==
    \A n \in Names :
        rpcHealthy[n] = H1 => (blockNumber[n].set /\ blockNumber[n] = decoded[n])

\* C4: with pairwise distinct names, the gauges at the end of a cycle are a
\* function of the gauges at its start and of each endpoint's outcome alone,
\* the same for every order of the endpoint list: a name whose probe was
\* healthy ends with 1 and float64 of its decoded result, any other with 0
\* and its block number of the start of the cycle; a refused connection is
\* always the outcome ConnectError; A answering "0x0" and B refusing the
\* connection end as A: 1 and 0, B: 0 and its old block number.
C4_OrderIndependent ==
    (CycleEnd /\ DistinctNames(config.Endpoints)) =>
        /\ Len(res.outcomes) = Len(config.Endpoints)
        /\ \A i \in 1..Len(config.Endpoints) :
              LET e  == config.Endpoints[i]
                  b  == remote[e.URL]
                  o  == res.outcomes[i]
                  ok == o.outcome = "Healthy"
              IN /\ o.name = e.Name
                 /\ b.kind = "dialerr" => o.outcome = "ConnectError"
                 /\ ok => (b.kind = "result" /\ o.raw = b.raw)
                 /\ rpcHealthy[e.Name] = IF ok THEN H1 ELSE H0
                 /\ blockNumber[e.Name] =
                        IF ok THEN Value(ToFloat64(hexToInt(o.raw).val))
                        ELSE cycleStart[e.Name]
        /\ ( /\ Len(config.Endpoints) = 2
             /\ \E i \in 1..2 :
                   res.outcomes[i] = [name |-> "A", outcome |-> "Healthy", raw |-> Hex0]
             /\ remote["u2"].kind = "dialerr" )
           => /\ rpcHealthy["A"] = H1
              /\ blockNumber["A"] = Value(F64(0))
              /\ rpcHealthy["B"] = H0
              /\ blockNumber["B"] = cycleStart["B"]

\* B (refusing) was probed before A (answering "0x0"); B keeps its block number 436
C4_Witness ==
    /\ CycleEnd
    /\ config.Endpoints = <<Endpoint("B", "u2"), Endpoint("A", "u1")>>
    /\ remote["u1"] = [kind |-> "result", raw |-> Hex0]
    /\ remote["u2"].kind = "dialerr"
    /\ res.outcomes = <<[name |-> "B", outcome |-> "ConnectError", raw |-> <<>>],
                        [name |-> "A", outcome |-> "Healthy", raw |-> Hex0]>>
    /\ cycleStart["B"] = Value(F64(436))
    /\ blockNumber["B"] = Value(F64(436))
    /\ blockNumber["A"] = Value(F64(0))

\* C5: a failed probe only advances the range loop: the step that returns the
\* failure leaves the scheduler at the next endpoint and the process running,
\* the process exits only by a step of main, the next endpoint is then probed
\* and a buffered tick is then consumed (unless main ends the process).
C5_FailureContained ==
    /\ [][(schedpc = "probe" /\ Failed(ret'.outcome))
            => (schedpc' = "loop" /\ idx' = idx + 1 /\ mainpc' = mainpc)]_vars
    /\ [][(mainpc' = "exited")
            => (mainpc \in {"load", "ticker", "serving"}
                /\ UNCHANGED <<schedVars, frameVars, ret, gaugeVars>>)]_vars
    /\ (schedpc = "loop" /\ Failed(ret.outcome) /\ idx <= Len(config.Endpoints))
          ~> (schedpc = "probe" \/ ~Running)
    /\ (schedpc = "loop" /\ Failed(ret.outcome) /\ idx > Len(config.Endpoints))
          ~> (schedpc = "recv" \/ ~Running)
    /\ (schedpc = "recv" /\ tickerC = 1) ~> (schedpc = "loop" \/ ~Running)

\* the first of two endpoints failed in this cycle and the second is being probed
C5_Witness ==
    /\ Running
    /\ schedpc = "probe"
    /\ idx = 2
    /\ DistinctNames(config.Endpoints)
    /\ rpcHealthy[config.Endpoints[1].Name] = H0
    /\ remote[config.Endpoints[1].URL].kind = "callerr"

\* C6: every probe that starts ends (or the process does); the deadline runs
\* from before the dial, and a call that has not returned when it elapses,
\* whether it elapsed during the dial or during the call, never stores a
\* result: it is abandoned as a call failure with rpc_healthy 0, the client
\* closed and the context cancelled; so a remote that never answers ends as
\* a call failure.
C6_ProbeEnds ==
    /\ (schedpc = "probe")
          ~> ((schedpc = "loop" /\ ret.outcome \in {"Healthy", "ConnectError", "CallError",
                                                    "DecodeError"}) \/ ~Running)
    /\ []((schedpc = "loop" /\ idx > 1 /\ remote[config.Endpoints[idx - 1].URL].kind = "timeout")
            => /\ ret.outcome = "CallError"
               /\ rpcHealthy[ret.name] = H0
               /\ ret.client = "closed"
               /\ ret.ctx = "cancelled")
    /\ [][(ppc = "call" /\ ctx = "expired" /\ ppc' # "call")
            => /\ schedpc' = "loop"
               /\ ret'.outcome = "CallError"
               /\ rpcHealthy'[ret'.name] = H0
               /\ ret'.client = "closed"
               /\ ret'.ctx = "cancelled"]_vars
    /\ [][(ctx = "live" /\ ctx' = "expired")
            => (schedpc = "probe" /\ UNCHANGED <<schedVars, ppc, client, result, ret, gaugeVars>>)]_vars

\* a probe of an endpoint that never answers has returned
C6_Witness ==
    /\ schedpc = "loop"
    /\ idx > 1
    /\ remote[config.Endpoints[idx - 1].URL].kind = "timeout"
    /\ ret.outcome = "CallError"
    /\ rpcHealthy[ret.name] = H0

\* C7 as stated: every block_number gauge that has been set holds a
\* non-negative integer.
C7_NonNegative ==
    \A n \in Names : blockNumber[n].set => ~blockNumber[n].val.neg

HexDigitChars ==
    {"0", "1", "2", "3", "4", "5", "6", "7", "8", "9",
     "a", "b", "c", "d", "e", "f", "A", "B", "C", "D", "E", "F"}

AllHexDigits(b) == Len(b) > 0 /\ \A i \in 1..Len(b) : b[i] \in HexDigitChars

\* a string of hexadecimal digits denotes a value of at most 2^63 - 1
InInt64Range(b) ==
    LET d == StripZeros(b) IN
    Len(d) < 16 \/ (Len(d) = 16 /\ d[1] \in {"0", "1", "2", "3", "4", "5", "6", "7"})

\* the input after one leading "0x" is dropped
BodyOf(s) == IF Len(s) >= 2 /\ SubSeq(s, 1, 2) = <<"0", "x">> THEN SubSeq(s, 3, Len(s)) ELSE s

\* C8 as stated: hexToInt returns an error for every input whose body after
\* the "0x" prefix is empty, holds a character that is no hexadecimal digit,
\* or denotes a value above the signed 64-bit maximum.
C8_RejectsInvalid ==
    (hexRet.done /\ (~AllHexDigits(BodyOf(hexStr)) \/ ~InInt64Range(BodyOf(hexStr))))
        => hexRet.err # "nil"

\* C9: for "0x" followed by one or more hexadecimal digits of either case,
\* with a value in the signed 64-bit range, hexToInt succeeds and the
\* lowercase hexadecimal text of its result, without leading zeros, is the
\* digit string of the input lowercased and stripped of leading zeros.
C9_RoundTrip ==
    ( /\ hexRet.done
      /\ Len(hexStr) > 2
      /\ SubSeq(hexStr, 1, 2) = <<"0", "x">>
      /\ AllHexDigits(BodyOf(hexStr))
      /\ InInt64Range(BodyOf(hexStr)) )
        => /\ hexRet.err = "nil"
           /\ ~hexRet.val.neg
           /\ FormatHexMag(hexRet.val.mag) = ToLowerStr(StripZeros(BodyOf(hexStr)))

\* 0x7FFFFFFFFFFFFFFF, the largest int64 in upper case, was decoded
C9_Witness ==
    /\ hexRet.done
    /\ hexStr = <<"0", "x", "7">> \o Fill("F", 15)
    /\ hexRet.err = "nil"
    /\ hexRet.val.mag = MaxInt64Mag

\* C10 as stated: a tick that arrives while a cycle is running is not queued
\* behind it: the cycle of that tick can begin while the running one goes on.
C10_Overlaps ==
    (CycleRunning /\ tickerC = 1) => ENABLED ConsumeTick

\* C10 amended: a tick that arrives while a cycle is running is held in the
\* one-slot buffer of ticker.C and changes nothing of the running cycle; its
\* cycle begins only when the scheduler is back at the receive, after the
\* last probe of the running cycle has returned; cycles never overlap.
C10_Queued ==
    /\ [](tickerC \in {0, 1})
    /\ []((CycleRunning /\ tickerC = 1) => ~ENABLED ConsumeTick)
    /\ [][(CycleRunning /\ tickerC' # tickerC)
            => (tickerC' = 1 /\ UNCHANGED <<schedVars, frameVars, ret, gaugeVars>>)]_vars
    /\ [][(tickerC = 1 /\ tickerC' = 0)
            => (schedpc = "recv" /\ ppc = "none" /\ schedpc' = "loop" /\ idx' = 1)]_vars

\* a tick is buffered while a probe of the running cycle is in flight
C10_Witness ==
    /\ Running
    /\ tickerC = 1
    /\ schedpc = "probe"
    /\ ppc = "call"

\* no probe has been started and no gauge has been written
Untouched ==
    /\ schedpc \in {"none", "recv"}
    /\ ppc = "none"
    /\ \A n \in Names : rpcHealthy[n] = Unset /\ blockNumber[n] = Unset

\* C11: the process starts with no probe under way and every gauge unset, and
\* stays so until a step takes a tick from ticker.C; a tick is put there only
\* by the ticker, after it was created, so no endpoint is probed and no gauge
\* is written before the first tick.
C11_NoProbeBeforeFirstTick ==
    /\ Untouched
    /\ [][(Untouched /\ ~Untouched') => (tickerC = 1 /\ tickerC' = 0)]_vars
    /\ [][(tickerC = 0 /\ tickerC' = 1) => TickerActive]_vars

\* the scheduler of two endpoints waits for its first tick while main serves
C11_Witness ==
    /\ mainpc = "serving"
    /\ schedpc = "recv"
    /\ tickerC = 0
    /\ Len(config.Endpoints) = 2
    /\ Untouched

\* C12: while a cycle runs, checkBlockchainRPC has been called once for every
\* list position up to the one being probed and not at all for the later
\* ones, so that at the end of the cycle every position was probed exactly
\* once, failed or not; a probe makes at most one rpcDial and one CallContext
\* call, and a probe that has returned made one dial, and one call unless
\* the dial failed.
C12_ProbedOnce ==
    /\ CycleRunning =>
          /\ Len(count.probes) = Len(config.Endpoints)
          /\ \A i \in 1..Len(config.Endpoints) :
                count.probes[i] = IF i < idx \/ (i = idx /\ schedpc = "probe") THEN 1 ELSE 0
    /\ CycleEnd => \A i \in 1..Len(config.Endpoints) : count.probes[i] = 1
    /\ count.dials <= 1
    /\ count.calls <= 1
    /\ ret.outcome # "none" =>
          /\ count.dials = 1
          /\ count.calls = IF ret.outcome = "ConnectError" THEN 0 ELSE 1

\* a cycle over two endpoints has ended: the first probe failed at the dial,
\* the second succeeded, each after one call of checkBlockchainRPC
C12_Witness ==
    /\ CycleEnd
    /\ count.probes = <<1, 1>>
    /\ remote[config.Endpoints[1].URL].kind = "dialerr"
    /\ rpcHealthy[config.Endpoints[1].Name] = H0
    /\ ret.outcome = "Healthy"
    /\ count.dials = 1
    /\ count.calls = 1

\* a configuration the specification calls invalid
InvalidConfig(c) == c.Interval <= 0 \/ Len(c.Endpoints) = 0 \/ c.Method = ""

\* C13 as stated: when config.yaml holds a zero interval, an empty endpoint
\* list or an empty method name, the process never has a ticker, the scheduler
\* goroutine is never started and no probe is ever under way.
C13_InvalidRejected ==
    (configFile.readable /\ configFile.parses /\ InvalidConfig(configFile.cfg)) =>
        /\ ~TickerActive
        /\ schedpc = "none"
        /\ ppc = "none"

\* C14: at the end of a cycle every configured endpoint name has an
\* rpc_healthy value, a value once set is never unset again, so every
\* configured name has a value from the end of the first cycle on; and in
\* every state each rpc_healthy value that is set is 0 or 1.
C14_HealthyValues ==
    /\ [](CycleEnd =>
            \A i \in 1..Len(config.Endpoints) : rpcHealthy[config.Endpoints[i].Name].set)
    /\ [][\A n \in Names : rpcHealthy[n].set => rpcHealthy'[n].set]_vars
    /\ [](\A n \in Names : rpcHealthy[n].set => rpcHealthy[n] \in {H0, H1})

\* a cycle over A and B is complete, the scheduler is back at the receive,
\* A is healthy and B is not
C14_Witness ==
    /\ schedpc = "recv"
    /\ tickerC = 0
    /\ Len(config.Endpoints) = 2
    /\ rpcHealthy["A"] = H1
    /\ rpcHealthy["B"] = H0

\* C15: when checkBlockchainRPC has returned, its context is cancelled and the
\* client it dialled, if rpcDial returned one, is closed, whatever the exit
\* path; the return step cancels once and closes an open client once, so
\* that outside a probe no client is open and as many clients were closed as
\* were opened, and as many contexts cancelled as derived; during a probe
\* exactly its own context and at most its own client are live.
C15_ClientClosed ==
    /\ [](ret.outcome # "none" =>
            /\ ret.ctx = "cancelled"
            /\ ret.client = IF ret.outcome = "ConnectError" THEN "nil" ELSE "closed")
    /\ [](schedpc # "probe" =>
            /\ client # "open"
            /\ ctx \notin {"live", "expired"}
            /\ res.closed = res.opened
            /\ res.cancels = res.ctxs)
    /\ [](schedpc = "probe" =>
            /\ ctx \in {"live", "expired"}
            /\ res.ctxs = res.cancels + 1
            /\ res.opened = res.closed + (IF client = "open" THEN 1 ELSE 0)
            /\ (client = "open") = (ppc \in {"call", "decode", "sethealthy", "setblock"}))
    /\ [][(schedpc = "probe" /\ schedpc' # "probe") =>
            /\ res'.cancels = res.cancels + 1
            /\ res'.closed = res.closed + (IF client = "open" THEN 1 ELSE 0)]_vars
    /\ [][res'.closed # res.closed => (schedpc' # "probe" /\ schedpc' # schedpc)]_vars

\* two probes of one cycle have returned, the first after its deadline passed
\* and the second after a decode error: two clients opened, two closed
C15_Witness ==
    /\ schedpc = "loop"
    /\ idx = 3
    /\ remote[config.Endpoints[1].URL].kind = "timeout"
    /\ ret.outcome = "DecodeError"
    /\ ret.client = "closed"
    /\ ret.ctx = "cancelled"
    /\ res.opened = 2
    /\ res.closed = 2
    /\ res.cancels = 2

\* C16: every step of a probe of endpoint E leaves rpc_healthy and
\* block_number of every name other than E.Name as they were, whatever the
\* outcome; and no step outside a probe writes a gauge at all.
C16_OnlyOwnLabel ==
    /\ [][schedpc = "probe" =>
            \A n \in Names \ {endpoint.Name} :
                rpcHealthy'[n] = rpcHealthy[n] /\ blockNumber'[n] = blockNumber[n]]_vars
    /\ [][schedpc # "probe" => UNCHANGED <<rpcHealthy, blockNumber>>]_vars

\* a probe of A has just written 1 and block number 0 while B still is
\* healthy with block number 436 from the cycle before
C16_Witness ==
    /\ schedpc = "loop"
    /\ idx = 2
    /\ Len(config.Endpoints) = 2
    /\ ret.name = "A"
    /\ ret.outcome = "Healthy"
    /\ blockNumber["A"] = Value(F64(0))
    /\ rpcHealthy["B"] = H1
    /\ cycleStart["B"] = Value(F64(436))
    /\ blockNumber["B"] = Value(F64(436))

RECURSIVE SumSeq(_)
SumSeq(q) == IF q = <<>> THEN 0 ELSE Head(q) + SumSeq(Tail(q))

\* checkBlockchainRPC calls of this cycle that have not returned
InFlight == SumSeq(count.probes) - res.returns

\* C17: at most one checkBlockchainRPC call is under way, and none outside a
\* cycle; a probe of list position i starts only when the probes of the
\* positions 1..i-1 have all returned, the one before it last and with its
\* rpc_healthy written; the loop goes back to the receive only when every
\* position has returned, a tick is taken only at the receive, and a gauge
\* is written only by the one probe under way.
C17_OneProbeAtATime ==
    /\ [](InFlight = IF schedpc = "probe" THEN 1 ELSE 0)
    /\ [](schedpc = "probe" <=> ppc # "none")
    /\ [](schedpc = "probe" => res.returns = idx - 1)
    /\ [][(schedpc # "probe" /\ schedpc' = "probe") =>
            /\ schedpc = "loop"
            /\ InFlight = 0
            /\ idx' = idx
            /\ res.returns = idx - 1
            /\ idx > 1 =>
                  /\ ret.outcome # "none"
                  /\ ret.name = config.Endpoints[idx - 1].Name
                  /\ rpcHealthy[ret.name].set]_vars
    /\ [][(schedpc # "recv" /\ schedpc' = "recv" /\ schedpc # "none") =>
            (schedpc = "loop" /\ res.returns = Len(config.Endpoints))]_vars
    /\ [][(tickerC = 1 /\ tickerC' = 0) => (schedpc = "recv" /\ InFlight = 0)]_vars
    /\ [][<<rpcHealthy, blockNumber>>' # <<rpcHealthy, blockNumber>> =>
            (InFlight = 1 /\ InFlight' <= 1)]_vars

\* the probe of the second list position is decoding its result after the
\* probe of the first has returned
C17_Witness ==
    /\ schedpc = "probe"
    /\ ppc = "decode"
    /\ idx = 2
    /\ count.probes = <<1, 1>>
    /\ res.returns = 1
    /\ ret = NoRet
    /\ rpcHealthy[config.Endpoints[1].Name].set

\* C18 as stated: in every state, block_number[name] has a value only if a
\* probe of that name has written rpc_healthy[name] = 1; a name that was
\* probed and for which no probe has written 1 has rpc_healthy 0 and no
\* block_number; and a block_number that has a value equals the value decoded
\* by the last probe of that name that wrote rpc_healthy = 1.
C18_BlockFromSuccess ==
    \A n \in Names :
        /\ blockNumber[n].set => decoded[n].set
        /\ (rpcHealthy[n].set /\ ~decoded[n].set) =>
              (rpcHealthy[n] = H0 /\ ~blockNumber[n].set)
        /\ blockNumber[n].set => blockNumber[n] = decoded[n]

====
